---- MODULE Spec2Model ----
(***************************************************************************)
(* Calendar Sync: the client-side token store (useAuth), the event query   *)
(* (useCalendarEvents: the query function, its retry predicate, its key),  *)
(* the OAuth callback page's save, and the token routes' response shape.   *)
(*                                                                         *)
(* Time is in milliseconds.  Texts (error messages, response bodies) are   *)
(* sequences of one-character strings, so that String.includes is computed *)
(* case-sensitively, as the code computes it.                              *)
(***************************************************************************)
EXTENDS Integers, Sequences, FiniteSets, TLC

\* ------------------------------------------------------------------ values

\* null / undefined / an absent localStorage entry
Null == "null"
\* an absent localStorage expiry entry, a time not set
NoTime == -1

\* access tokens the upstream can issue, and refresh tokens
Tokens == {"a1", "a2"}
RefreshTokens == {"r1"}

\* dateFilter of Home: {} (no filter) or the day DateFilter selects on mount
NoFilter == "none"
Today == "day1"
Filters == {NoFilter, Today}

\* what calendar.events.list answers on success: response.data with its
\* items in the upstream's order, or without an items entry
Payloads ==
  {[hasItems |-> TRUE, items |-> <<"e2", "e1", "e2">>]}

\* 5 * 60 * 1000
FiveMinutes == 300000
\* useQuery options
StaleTime == 10000
RefetchInterval == 30000
\* retry: failureCount < 3
MaxFailureCount == 3

\* the most steps the user and the timers take in one behaviour
MaxUserSteps == 2
\* the most triggers (first runs of the query function) of one page load
MaxTriggers == 3
\* the most queries in flight at once
MaxInFlight == 2
\* the largest clock value of the model
MaxNow == 600000
\* the instants the clock takes
Clock == {0, MaxNow}

\* the milliseconds around the 5-minute threshold that the expiry check is
\* tried on
MaxDrift == 6

\* the calendar dates the events route is asked for: day 1 .. MaxDay
MaxDay == 3
\* the UTC offsets of the route's local time: -MaxOffsetHours .. MaxOffsetHours
MaxOffsetHours == 12

\* the longest list of events the upstream answers with
MaxEvents == 3

\* remaining lifetimes (seconds) the upstream token endpoint grants
Lifetimes == {600}

\* expiry values an earlier page load can have left in localStorage
LeftoverExpiries == {FiveMinutes, FiveMinutes + MaxNow}

\* ------------------------------------------------------------------- texts

\* the keywords of the error classification
KwToken == "token"
KwAuth == "auth"
KwAuthentication == "authentication"
KwUnauthorized == "unauthorized"
Kw401 == "401"

\* the messages the query function throws itself
MsgTokenExpiredRefreshFailed == "Token expired and refresh failed"
MsgAuthenticationFailed == "Authentication failed. Please sign in again."
\* the message of fetchCalendarEvents for an error response without a body
MsgFailedToFetch == "Failed to fetch calendar events"

\* a 401 of the upstream, as the events route wraps it
BodyInvalidCredentials ==
  "{\"error\":\"Request had invalid authentication credentials.\"}"
\* an error response without a body
BodyEmpty == ""

\* the bodies a non-ok events response carries
ErrorBodies == {BodyInvalidCredentials, BodyEmpty}

\* no error
NoMsg == ""

\* the characters of a text, one string each
Chars(text) ==
  CASE text = "" -> << >>
    [] text = KwToken ->
       <<"t","o","k","e","n">>
    [] text = KwAuth ->
       <<"a","u","t","h">>
    [] text = KwAuthentication ->
       <<"a","u","t","h","e","n","t","i","c","a","t","i","o","n">>
    [] text = KwUnauthorized ->
       <<"u","n","a","u","t","h","o","r","i","z","e","d">>
    [] text = Kw401 ->
       <<"4","0","1">>
    [] text = MsgTokenExpiredRefreshFailed ->
       <<"T","o","k","e","n"," ","e","x","p","i","r","e","d"," ","a","n","d",
         " ","r","e","f","r","e","s","h"," ","f","a","i","l","e","d">>
    [] text = MsgAuthenticationFailed ->
       <<"A","u","t","h","e","n","t","i","c","a","t","i","o","n"," ","f","a",
         "i","l","e","d","."," ","P","l","e","a","s","e"," ","s","i","g","n",
         " ","i","n"," ","a","g","a","i","n",".">>
    [] text = MsgFailedToFetch ->
       <<"F","a","i","l","e","d"," ","t","o"," ","f","e","t","c","h"," ","c",
         "a","l","e","n","d","a","r"," ","e","v","e","n","t","s">>
    [] text = BodyInvalidCredentials ->
       <<"{","\"","e","r","r","o","r","\"",":","\"","R","e","q","u","e","s",
         "t"," ","h","a","d"," ","i","n","v","a","l","i","d"," ","a","u","t",
         "h","e","n","t","i","c","a","t","i","o","n"," ","c","r","e","d","e",
         "n","t","i","a","l","s",".","\"","}">>

\* String.prototype.includes
Includes(text, pat) ==
  LET t == Chars(text)
      p == Chars(pat)
  IN \E i \in 1..(Len(t) - Len(p) + 1) : SubSeq(t, i, i + Len(p) - 1) = p

\* the classification of the query function's catch branch
IsAuthError(msg) ==
  \/ Includes(msg, KwToken)
  \/ Includes(msg, KwAuth)
  \/ Includes(msg, KwAuthentication)
  \/ Includes(msg, KwUnauthorized)
  \/ Includes(msg, Kw401)

\* a retry option that retries every non-authentication error
RetryEveryTransient(failureCount, msg) ==
  ~IsAuthError(msg)

\* the retry option of useQuery: false on an authentication error
RetryPredicate(failureCount, msg) ==
  IF IsAuthError(msg) THEN FALSE ELSE failureCount < MaxFailureCount

\* fetchCalendarEvents on a non-ok response: new Error(errorText || default)
FetchErrorMessage(body) ==
  IF body = BodyEmpty THEN MsgFailedToFetch ELSE body

\* ------------------------------------------------------------- token store

\* an expiry check that reports the threshold instant itself as not expired
isTokenExpiredAfter(storedExpiry, currentTime) ==
  IF storedExpiry = NoTime THEN TRUE
  ELSE currentTime > storedExpiry - FiveMinutes

\* isTokenExpired over the stored expiry and Date.now()
isTokenExpired(storedExpiry, currentTime) ==
  IF storedExpiry = NoTime THEN TRUE
  ELSE currentTime >= storedExpiry - FiveMinutes

\* credentials.expiry_date of the OAuth2 client: the instant (epoch ms) at
\* which a token granted at issuedAt for lifetime seconds expires
ExpiryDate(issuedAt, lifetime) == issuedAt + lifetime * 1000

\* the routes' response field: expires_in: credentials.expiry_date
RouteExpiresIn(issuedAt, lifetime) == ExpiryDate(issuedAt, lifetime)

\* const expiryTime = Date.now() + expiresIn * 1000
ExpiryTime(currentTime, expiresIn) == currentTime + expiresIn * 1000

EmptyStore == [access |-> Null, refresh |-> Null, expiry |-> NoTime]

\* saveTokensToStorage(accessToken, refreshToken, expiresIn)
saveTokensToStorage(accessToken, refreshTok, expiresIn, currentTime) ==
  [access |-> accessToken, refresh |-> refreshTok,
   expiry |-> ExpiryTime(currentTime, expiresIn)]

\* a logout that removes the two token entries and leaves the expiry entry
logoutKeepsExpiry(store) ==
  [store EXCEPT !.access = Null, !.refresh = Null]

\* a logout that removes the access token and expiry entries only
logoutKeepsRefresh(store) ==
  [store EXCEPT !.access = Null, !.expiry = NoTime]

\* the localStorage part of logout()
logoutStore(store) ==
  [store EXCEPT !.access = Null, !.refresh = Null, !.expiry = NoTime]

\* a refresh that also removes the refresh token entry
refreshStoreDropsRefresh(store, newToken, expiresIn, currentTime) ==
  [store EXCEPT !.access = newToken, !.refresh = Null,
                !.expiry = ExpiryTime(currentTime, expiresIn)]

\* a refresh that stores the new access token and leaves the expiry entry
refreshStoreAccessOnly(store, newToken, expiresIn, currentTime) ==
  [store EXCEPT !.access = newToken]

\* the localStorage part of a successful refreshAccessToken
refreshStore(store, newToken, expiresIn, currentTime) ==
  [store EXCEPT !.access = newToken,
                !.expiry = ExpiryTime(currentTime, expiresIn)]

\* ------------------------------------------------------------------- state

VARIABLES
  now,                 \* Date.now()
  ls,                  \* localStorage: google_access_token, _refresh_token, _token_expiry
  mounted,             \* the mount effect of useAuth has run (isLoading = false)
  token,               \* useAuth state
  refreshToken,        \* useAuth state
  dateFilter,          \* Home state
  queries,             \* the query cache: one query per key [token, dateFilter]
  upstreamExpiry,      \* history: the instant the stored access token expires upstream
  refreshFailed,       \* history: a refresh request has failed since the last login
  userSteps,           \* history: steps of the user and the timers so far
  triggers,            \* history: triggers started since the page was loaded
  req                  \* the request the events route is handling

vars == <<now, ls, mounted, token, refreshToken, dateFilter, queries,
          upstreamExpiry, refreshFailed, userSteps, triggers, req>>

Keys == Tokens \X Filters

\* the events route is handling no request
NoRequest ==
  [pc |-> "none", startDate |-> Null, endDate |-> Null, offset |-> 0,
   timeMin |-> Null, timeMax |-> Null]

RefreshPcs == {"preRefresh", "catchRefresh"}
EventsPcs == {"events", "preEvents", "retryEvents"}
InFlightPcs == RefreshPcs \cup EventsPcs \cup {"retryDelay"}

\* a query that has never fetched
IdleQuery ==
  [pc |-> "idle",             \* where the query function is suspended
   crt |-> Null,              \* refreshToken state closed over by refreshAccessToken
   expiredAtStart |-> FALSE,  \* isTokenExpired() at the start of this run
   nRefresh |-> 0,            \* refresh requests sent by this run
   nEvents |-> 0,             \* events requests sent by this run
   sentTok |-> Null,          \* token of the latest events request of this run
   sentFilter |-> Null,       \* date filter of the latest events request
   dataFilter |-> Null,       \* date filter of the request the data answers
   caught |-> NoMsg,          \* error caught by the outer catch
   err |-> NoMsg,             \* error thrown by the latest run
   failureCount |-> 0,        \* failureCount of the retryer
   cancelled |-> FALSE,       \* isRetryCancelled of the retryer
   refreshFailedInTrigger |-> FALSE,
   evAfterFail |-> FALSE,     \* an events request followed a failed refresh
   upstream |-> Null,         \* the upstream answer the data came from
   data |-> Null,
   updatedAt |-> NoTime]

CurKey == <<token, dateFilter>>
NoKey == <<Null, Null>>

\* ------------------------------------------------------------ the query

\* the retryer on a rejection of the query function
Reject(q, msg) ==
  IF q.cancelled \/ ~RetryPredicate(q.failureCount, msg)
  THEN [q EXCEPT !.pc = "error", !.err = msg]
  ELSE [q EXCEPT !.pc = "retryDelay", !.err = msg, !.failureCount = @ + 1]

\* the outer catch of the query function, up to its first await
CatchBranch(q, msg) ==
  IF IsAuthError(msg) /\ q.crt # Null
  THEN [q EXCEPT !.pc = "catchRefresh", !.caught = msg, !.nRefresh = @ + 1]
  ELSE Reject(q, msg)

\* a query function without the expiry check before the request
QueryFnNoPreCheck(q0, k, store, t) ==
  LET q == [q0 EXCEPT !.expiredAtStart = isTokenExpired(store.expiry, t),
                      !.nRefresh = 0, !.nEvents = 0, !.sentTok = Null,
                      !.caught = NoMsg, !.err = NoMsg]
  IN [q EXCEPT !.pc = "events", !.nEvents = 1, !.sentTok = k[1],
               !.evAfterFail = q.refreshFailedInTrigger]

\* one run of the query function, up to its first await
QueryFn(q0, k, store, t) ==
  LET q == [q0 EXCEPT !.expiredAtStart = isTokenExpired(store.expiry, t),
                      !.nRefresh = 0, !.nEvents = 0, !.sentTok = Null,
                      !.sentFilter = Null,
                      !.caught = NoMsg, !.err = NoMsg]
  IN IF q.expiredAtStart
     THEN IF q.crt # Null
          THEN [q EXCEPT !.pc = "preRefresh", !.nRefresh = 1]
          ELSE CatchBranch(q, MsgTokenExpiredRefreshFailed)
     ELSE [q EXCEPT !.pc = "events", !.nEvents = 1, !.sentTok = k[1],
                    !.sentFilter = k[2],
                    !.evAfterFail = q.refreshFailedInTrigger]

\* a new trigger of the query: the first run, with the closure of this render
StartTrigger(q, k, store, rts, t) ==
  QueryFn([IdleQuery EXCEPT !.crt = rts, !.data = q.data,
                            !.upstream = q.upstream,
                            !.dataFilter = q.dataFilter,
                            !.updatedAt = q.updatedAt], k, store, t)

\* a mutant: without staleTime a result is stale at once
IsStaleAtOnce(q, t) == TRUE

\* staleTime: 10000
IsStale(q, t) == q.updatedAt = NoTime \/ t - q.updatedAt >= StaleTime

\* the observer leaves key ko: removeObserver cancels the retries
Leave(qs, ko) ==
  IF ko[1] # Null /\ qs[ko].pc \in InFlightPcs
  THEN [qs EXCEPT ![ko].cancelled = TRUE]
  ELSE qs

\* the observer arrives at key kn: enabled: !!token, fetch when stale
Enter(qs, kn, store, rts, t) ==
  IF kn[1] = Null THEN qs
  ELSE LET q == qs[kn]
       IN IF ~IsStale(q, t) THEN qs
          ELSE IF q.pc \in InFlightPcs
          THEN [qs EXCEPT ![kn].cancelled = FALSE]
          ELSE [qs EXCEPT ![kn] = StartTrigger(q, kn, store, rts, t)]

\* a render whose query key differs from the one before
Render(qs, ko, kn, store, rts, t) ==
  IF ko = kn THEN qs ELSE Enter(Leave(qs, ko), kn, store, rts, t)

\* the render after setToken: when isAuthenticated turns true, DateFilter
\* mounts and its effect selects today, which changes the key once more
AuthRender(qs, oldTok, newTok, f, store, rts, t) ==
  IF oldTok = Null /\ newTok # Null
  THEN [qs |-> Render(Render(qs, <<oldTok, f>>, <<newTok, f>>, store, rts, t),
                      <<newTok, f>>, <<newTok, Today>>, store, rts, t),
        filter |-> Today]
  ELSE [qs |-> Render(qs, <<oldTok, f>>, <<newTok, f>>, store, rts, t),
        filter |-> f]

\* a refresh request leaves the client in the step from qs to qs2
SentRefresh(qs, qs2) ==
  \E k \in Keys : qs2[k].pc \in RefreshPcs /\ qs2[k].pc # qs[k].pc

\* what the cache shows of a settled query: the history of its runs is kept
\* in the state in which the query settled, and dropped by the next step
Forget(q) ==
  [IdleQuery EXCEPT !.pc = q.pc, !.err = q.err, !.data = q.data,
                    !.upstream = q.upstream, !.dataFilter = q.dataFilter,
                    !.updatedAt = q.updatedAt]

Settle(qs, qs2) ==
  [k \in Keys |->
     IF qs2[k].pc \notin InFlightPcs /\ qs2[k] = qs[k]
     THEN Forget(qs2[k]) ELSE qs2[k]]

\* the triggers started in the step from qs to qs2
Started(qs, qs2) ==
  Cardinality({k \in Keys : qs[k].pc \notin InFlightPcs /\ qs2[k] # qs[k]})

\* the value of triggers in a page load whose triggers and requests in
\* flight are not bounded
Uncounted == 0 - 1

\* the steps of the user and of the timers
UserOps == {"Login", "Logout", "SetFilter", "Refetch", "Tick", "WindowFocus"}

\* the step from queries to qs2, and its history
Commit(qs2, op) ==
  /\ queries' = Settle(queries, qs2)
  /\ userSteps' = IF op \in UserOps THEN userSteps + 1 ELSE userSteps
  /\ userSteps' <= MaxUserSteps
  /\ triggers' = IF triggers = Uncounted THEN Uncounted
                 ELSE IF op = "Login" THEN 0
                 ELSE triggers + Started(queries, qs2)
  /\ triggers' <= MaxTriggers
  /\ UNCHANGED req
  /\ \/ triggers = Uncounted
     \/ Cardinality({j \in Keys : qs2[j].pc \in InFlightPcs}) <= MaxInFlight

\* ----------------------------------------------------------------- actions

\* what an earlier page load can have left in localStorage
Leftovers ==
  {EmptyStore} \cup
  [access : {"a1"}, refresh : RefreshTokens, expiry : LeftoverExpiries]

Init ==
  /\ now = 0
  /\ ls \in Leftovers
  /\ mounted = FALSE
  /\ token = Null
  /\ refreshToken = Null
  /\ dateFilter = NoFilter
  /\ queries = [k \in Keys |-> IdleQuery]
  /\ upstreamExpiry = NoTime
  /\ refreshFailed = FALSE
  /\ userSteps = 0
  /\ triggers = 0
  /\ req = NoRequest

\* the mount effect of useAuth.  Its refreshAccessToken() is the one of the
\* first render, whose refreshToken state is null: it returns null and sends
\* nothing.
Mount ==
  /\ ~mounted
  /\ mounted' = TRUE
  /\ token' = ls.access
  /\ refreshToken' = ls.refresh
  /\ LET r == AuthRender(queries, token, ls.access, dateFilter, ls, ls.refresh, now)
     IN /\ dateFilter' = r.filter
        /\ Commit(r.qs, "Mount")
  /\ UNCHANGED <<now, ls, upstreamExpiry, refreshFailed>>

\* login(): the page is left for the OAuth consent; the callback page
\* exchanges the code, saves the tokens and redirects to Home, which mounts anew
Login(accessToken, refreshTok, lifetime) ==
  /\ mounted /\ token = Null
  /\ ls' = saveTokensToStorage(accessToken, refreshTok,
                               RouteExpiresIn(now, lifetime), now)
  /\ upstreamExpiry' = ExpiryDate(now, lifetime)
  /\ mounted' = FALSE
  /\ token' = Null
  /\ refreshToken' = Null
  /\ dateFilter' = NoFilter
  /\ refreshFailed' = FALSE
  /\ Commit([k \in Keys |-> IdleQuery], "Login")
  /\ UNCHANGED now

\* logout(), from the Sign Out button
Logout ==
  /\ mounted /\ token # Null
  /\ ls' = logoutStore(ls)
  /\ token' = Null
  /\ refreshToken' = Null
  /\ upstreamExpiry' = NoTime
  /\ Commit(Leave(queries, CurKey), "Logout")
  /\ UNCHANGED <<now, mounted, dateFilter, refreshFailed>>

\* handleDateChange, from a day selected or the filter cleared
SetFilter(f) ==
  /\ mounted /\ token # Null /\ f # dateFilter
  /\ dateFilter' = f
  /\ Commit(Render(queries, CurKey, <<token, f>>, ls, refreshToken, now),
            "SetFilter")
  /\ UNCHANGED <<now, ls, mounted, token, refreshToken, upstreamExpiry,
                 refreshFailed>>

\* a refetch of the observed query: by refetchInterval, or by a refocus of
\* the window whenever the result is stale
Refetch ==
  /\ mounted /\ token # Null
  /\ queries[CurKey].pc \in {"success", "error"}
  /\ Commit([queries EXCEPT ![CurKey] =
               StartTrigger(@, CurKey, ls, refreshToken, now)],
            "Refetch")
  /\ UNCHANGED <<now, ls, mounted, token, refreshToken, dateFilter,
                 upstreamExpiry, refreshFailed>>

\* the retryer runs the query function again after its delay
PolicyRetry(k) ==
  /\ queries[k].pc = "retryDelay" /\ ~queries[k].cancelled
  /\ Commit([queries EXCEPT ![k] =
               QueryFn([@ EXCEPT !.crt = IF k = CurKey THEN refreshToken ELSE @],
                       k, ls, now)],
            "PolicyRetry")
  /\ UNCHANGED <<now, ls, mounted, token, refreshToken, dateFilter,
                 upstreamExpiry, refreshFailed>>

\* the retryer finds its retries cancelled after the delay
RetryCancelled(k) ==
  /\ queries[k].pc = "retryDelay" /\ queries[k].cancelled
  /\ Commit([queries EXCEPT ![k].pc = "error"], "RetryCancelled")
  /\ UNCHANGED <<now, ls, mounted, token, refreshToken, dateFilter,
                 upstreamExpiry, refreshFailed>>

\* an events route that leaves out the last item
RouteEventsDropLast(resp) ==
  IF resp.hasItems /\ resp.items # << >>
  THEN SubSeq(resp.items, 1, Len(resp.items) - 1) ELSE << >>

\* the events route's result: response.data.items || []
RouteEvents(resp) ==
  IF resp.hasItems THEN resp.items ELSE << >>

\* createSuccessResponse(events): the JSON body { data, message }
createSuccessResponse(data) == [data |-> data]

\* fetchCalendarEvents on an ok response: data.data || []
ClientEvents(body) == body.data

\* a page with one events state for all keys: the answer to the request of
\* query k is stored as the result of the observed query
EventsOkToCurrent(k, payload) ==
  /\ queries[k].pc \in EventsPcs
  /\ token # Null
  /\ Commit([queries EXCEPT
               ![k] = [@ EXCEPT !.pc = "success", !.err = NoMsg,
                                !.failureCount = 0],
               ![CurKey] =
                 [@ EXCEPT !.upstream = payload,
                           !.dataFilter = queries[k].sentFilter,
                           !.data = ClientEvents(createSuccessResponse(
                                                   RouteEvents(payload))),
                           !.updatedAt = now]],
            "EventsOk")
  /\ UNCHANGED <<now, ls, mounted, token, refreshToken, dateFilter,
                 upstreamExpiry, refreshFailed>>

\* an events request is answered with 200
EventsOk(k, payload) ==
  /\ queries[k].pc \in EventsPcs
  /\ Commit([queries EXCEPT ![k] =
               [@ EXCEPT !.pc = "success",
                         !.upstream = payload,
                         !.dataFilter = queries[k].sentFilter,
                         !.data = ClientEvents(createSuccessResponse(
                                                 RouteEvents(payload))),
                         !.updatedAt = now, !.err = NoMsg,
                         !.failureCount = 0]],
            "EventsOk")
  /\ UNCHANGED <<now, ls, mounted, token, refreshToken, dateFilter,
                 upstreamExpiry, refreshFailed>>

\* an events request is answered with a non-ok status
EventsFail(k, body) ==
  /\ queries[k].pc \in EventsPcs
  /\ LET q == queries[k]
         msg == FetchErrorMessage(body)
     IN Commit([queries EXCEPT ![k] =
                  IF q.pc = "retryEvents"
                  THEN Reject(q, MsgAuthenticationFailed)
                  ELSE CatchBranch(q, msg)],
               "EventsFail")
  /\ UNCHANGED <<now, ls, mounted, token, refreshToken, dateFilter,
                 upstreamExpiry, refreshFailed>>

\* a refresh request is answered with a new access token: refreshAccessToken
\* stores it and returns it, and the query function sends the events request
RefreshOk(k, newToken, lifetime) ==
  /\ queries[k].pc \in RefreshPcs
  /\ LET q == queries[k]
         store == refreshStore(ls, newToken, RouteExpiresIn(now, lifetime), now)
         q1 == [q EXCEPT !.pc = IF q.pc = "preRefresh" THEN "preEvents"
                                ELSE "retryEvents",
                         !.nEvents = @ + 1,
                         !.sentTok = newToken,
                         !.sentFilter = k[2],
                         !.evAfterFail = q.refreshFailedInTrigger]
         r == AuthRender([queries EXCEPT ![k] = q1], token, newToken,
                         dateFilter, store, refreshToken, now)
     IN /\ ls' = store
        /\ token' = newToken
        /\ dateFilter' = r.filter
        /\ Commit(r.qs, "RefreshOk")
  /\ upstreamExpiry' = ExpiryDate(now, lifetime)
  /\ UNCHANGED <<now, mounted, refreshToken, refreshFailed>>

\* a refresh request fails (it throws, or the status is not ok):
\* refreshAccessToken logs out and returns null
RefreshFail(k) ==
  /\ queries[k].pc \in RefreshPcs
  /\ LET q == [queries[k] EXCEPT !.refreshFailedInTrigger = TRUE]
         q1 == IF q.pc = "preRefresh"
               THEN CatchBranch(q, MsgTokenExpiredRefreshFailed)
               ELSE Reject(q, q.caught)
     IN Commit(Leave([queries EXCEPT ![k] = q1], CurKey), "RefreshFail")
  /\ ls' = logoutStore(ls)
  /\ token' = Null
  /\ refreshToken' = Null
  /\ refreshFailed' = TRUE
  /\ upstreamExpiry' = NoTime
  /\ UNCHANGED <<now, mounted, dateFilter>>

\* time passes.  The clock of the model is coarse: a request is answered
\* within one instant of it, so the clock moves only while none is awaited.
Tick(t) ==
  /\ t > now
  /\ \A k \in Keys : queries[k].pc \notin InFlightPcs
  /\ now' = t
  /\ Commit(queries, "Tick")
  /\ UNCHANGED <<ls, mounted, token, refreshToken, dateFilter,
                 upstreamExpiry, refreshFailed>>

Next ==
  \/ Mount
  \/ \E a \in Tokens, r \in RefreshTokens, l \in Lifetimes : Login(a, r, l)
  \/ Logout
  \/ \E f \in Filters : SetFilter(f)
  \/ Refetch
  \/ \E k \in Keys : PolicyRetry(k)
  \/ \E k \in Keys : RetryCancelled(k)
  \/ \E k \in Keys, p \in Payloads : EventsOk(k, p)
  \/ \E k \in Keys, b \in ErrorBodies : EventsFail(k, b)
  \/ \E k \in Keys, a \in Tokens, l \in Lifetimes : RefreshOk(k, a, l)
  \/ \E k \in Keys : RefreshFail(k)
  \/ \E t \in Clock : Tick(t)

Spec == Init /\ [][Next]_vars

\* ------------------------------------------- the expiry check on its own

\* stored expiries around the threshold of the instants 0..MaxDrift, and none
NearExpiries ==
  {NoTime} \cup ((FiveMinutes - MaxDrift) .. (FiveMinutes + 2 * MaxDrift))

\* a page load at any of the instants, over any of the stored expiries
InitExpiry ==
  /\ now \in 0 .. MaxDrift
  /\ ls \in [access : {"a1"}, refresh : RefreshTokens, expiry : NearExpiries]
  /\ mounted = FALSE
  /\ token = Null
  /\ refreshToken = Null
  /\ dateFilter = NoFilter
  /\ queries = [k \in Keys |-> IdleQuery]
  /\ upstreamExpiry = NoTime
  /\ refreshFailed = FALSE
  /\ userSteps = 0
  /\ triggers = 0
  /\ req = NoRequest

\* the first runs of the query function call isTokenExpired()
SpecExpiry == InitExpiry /\ [][Mount]_vars

\* ------------------------------------------------- logout() on its own

\* the store states logout() is called on: each entry present or absent
AnyStores ==
  [access : Tokens \cup {Null}, refresh : RefreshTokens \cup {Null},
   expiry : LeftoverExpiries \cup {NoTime}]

\* the token and refreshToken state logout() is called on
AnySessions ==
  {<<Null, Null>>} \cup (Tokens \X (RefreshTokens \cup {Null}))

\* a mounted page over any store and any session state
InitLogout ==
  /\ now = 0
  /\ ls \in AnyStores
  /\ mounted = TRUE
  /\ \E se \in AnySessions : token = se[1] /\ refreshToken = se[2]
  /\ dateFilter \in Filters
  /\ queries = [k \in Keys |-> IdleQuery]
  /\ upstreamExpiry = NoTime
  /\ refreshFailed = FALSE
  /\ userSteps = 0
  /\ triggers = 0
  /\ req = NoRequest

\* a call of logout(), from the button or from a failed refresh
LogoutCall ==
  /\ ls' = logoutStore(ls)
  /\ token' = Null
  /\ refreshToken' = Null
  /\ upstreamExpiry' = NoTime
  /\ Commit(Leave(queries, CurKey), "Logout")
  /\ UNCHANGED <<now, mounted, dateFilter, refreshFailed>>

SpecLogout == InitLogout /\ [][LogoutCall]_vars

\* ------------------------------------------------ the events on the page

\* events || [] of Home: the data of the query, or none yet
PageEvents(q) == IF q.updatedAt = NoTime THEN << >> ELSE q.data

\* what EventsList renders from its props
EventsList(events, isLoading, error) ==
  IF isLoading THEN [kind |-> "loading", events |-> << >>, message |-> NoMsg]
  ELSE IF error # NoMsg
  THEN [kind |-> "error", events |-> << >>, message |-> error]
  ELSE IF Len(events) = 0
  THEN [kind |-> "empty", events |-> << >>, message |-> NoMsg]
  ELSE [kind |-> "events", events |-> events, message |-> NoMsg]

\* the ids of the events of the upstream calendar
EventIds == {"e1", "e2"}

\* the answers of calendar.events.list: every list of up to MaxEvents
\* events, in any order and with repetitions, or an answer without items
UpstreamAnswers ==
  {[hasItems |-> TRUE, items |-> l] :
     l \in UNION {[1 .. n -> EventIds] : n \in 0 .. MaxEvents}}
  \cup {[hasItems |-> FALSE, items |-> << >>]}

\* a page load with stored tokens that are valid for longer than 5 minutes
InitEvents ==
  /\ Init
  /\ ls.access # Null
  /\ ~isTokenExpired(ls.expiry, now)

\* a session in which the upstream answers every events request with 200
NextEvents ==
  \/ Mount
  \/ \E f \in Filters : SetFilter(f)
  \/ Refetch
  \/ \E k \in Keys, p \in UpstreamAnswers : EventsOk(k, p)

SpecEvents == InitEvents /\ [][NextEvents]_vars

\* ------------------------------------------- the events route's time bounds

HourMs == 60 * 60 * 1000
DayMs == 24 * HourMs

\* calendar dates (days since an epoch day) and UTC offsets (ms east of UTC)
Days == 1 .. MaxDay
Offsets == {h * HourMs : h \in (0 - MaxOffsetHours) .. MaxOffsetHours}

\* new Date("YYYY-MM-DD"): a date-only string is midnight UTC of that date
ParseDate(date) == date * DayMs

\* Date.prototype.setHours(23, 59, 59, 999): the last millisecond of the
\* local calendar day the instant falls on, at the given UTC offset
SetHoursEndOfDay(instant, offset) ==
  ((instant + offset) \div DayMs) * DayMs + (DayMs - 1) - offset

\* Date.prototype.toISOString: the UTC date and the millisecond of that day
ToISOString(instant) ==
  [date |-> instant \div DayMs, ms |-> instant % DayMs]

\* the instant of a local wall-clock time (date, ms of the day) at an offset
LocalTime(date, ms, offset) == date * DayMs + ms - offset

\* a request for a date range arrives at the events route
InitDates ==
  /\ now = 0
  /\ ls = EmptyStore
  /\ mounted = FALSE
  /\ token = Null
  /\ refreshToken = Null
  /\ dateFilter = NoFilter
  /\ queries = [k \in Keys |-> IdleQuery]
  /\ upstreamExpiry = NoTime
  /\ refreshFailed = FALSE
  /\ userSteps = 0
  /\ triggers = 0
  /\ \E sd \in Days, ed \in Days, o \in Offsets :
       /\ sd <= ed
       /\ req = [NoRequest EXCEPT !.pc = "received", !.startDate = sd,
                                  !.endDate = ed, !.offset = o]

\* getCalendarEvents builds timeMin and timeMax and lists the events
getCalendarEvents ==
  /\ req.pc = "received"
  /\ req' = [req EXCEPT
               !.pc = "listed",
               !.timeMin = ToISOString(ParseDate(req.startDate)),
               !.timeMax = ToISOString(SetHoursEndOfDay(ParseDate(req.endDate),
                                                        req.offset))]
  /\ UNCHANGED <<now, ls, mounted, token, refreshToken, dateFilter, queries,
                 upstreamExpiry, refreshFailed, userSteps, triggers>>

SpecDates == InitDates /\ [][getCalendarEvents]_vars

\* ------------------------------------------- the date filter's parameters

\* Date.prototype.setHours(0, 0, 0, 0): the first millisecond of the local
\* calendar day the instant falls on, at the given UTC offset
SetHoursStartOfDay(instant, offset) ==
  ((instant + offset) \div DayMs) * DayMs - offset

\* toISOString().split("T")[0]: the UTC calendar date of the instant
ApiDate(instant) == ToISOString(instant).date

\* the times of the local day at which a date is picked (the calendar gives
\* local midnight, new Date() any time of the day)
PickTimes == {0, 12 * HourMs}

\* a day is selected in the filter of a client at some UTC offset
InitFilter ==
  /\ now = 0
  /\ ls = EmptyStore
  /\ mounted = FALSE
  /\ token = Null
  /\ refreshToken = Null
  /\ dateFilter = NoFilter
  /\ queries = [k \in Keys |-> IdleQuery]
  /\ upstreamExpiry = NoTime
  /\ refreshFailed = FALSE
  /\ userSteps = 0
  /\ triggers = 0
  /\ \E d \in Days, ms \in PickTimes, o \in Offsets :
       req = [pc |-> "selected", day |-> d, offset |-> o,
              date |-> LocalTime(d, ms, o),
              startDate |-> 0, endDate |-> 0]

\* handleDateSelect (and the mount effect of DateFilter) build the two
\* instants, Home turns them into the date strings of the request
handleDateSelect ==
  /\ req.pc = "selected"
  /\ LET startOfDay == SetHoursStartOfDay(req.date, req.offset)
         endOfDay == SetHoursEndOfDay(req.date, req.offset)
     IN req' = [req EXCEPT !.pc = "sent",
                           !.startDate = ApiDate(startOfDay),
                           !.endDate = ApiDate(endOfDay)]
  /\ UNCHANGED <<now, ls, mounted, token, refreshToken, dateFilter, queries,
                 upstreamExpiry, refreshFailed, userSteps, triggers>>

SpecFilter == InitFilter /\ [][handleDateSelect]_vars

\* ------------------------------------- a session the upstream rejects

\* a page load with valid stored tokens, left to itself
InitChain ==
  /\ now = 0
  /\ ls \in {l \in Leftovers : l.access # Null}
  /\ mounted = FALSE
  /\ token = Null
  /\ refreshToken = Null
  /\ dateFilter = NoFilter
  /\ queries = [k \in Keys |-> IdleQuery]
  /\ upstreamExpiry = NoTime
  /\ refreshFailed = FALSE
  /\ userSteps = 0
  /\ triggers = Uncounted
  /\ req = NoRequest

\* every events request is answered 401 and every refresh request with an
\* access token other than the one held
EventsRejected(k) ==
  \E b \in {BodyInvalidCredentials} : EventsFail(k, b)
RefreshRenews(k) ==
  \E a \in Tokens \ {token}, l \in Lifetimes : RefreshOk(k, a, l)

NextChain ==
  \/ Mount
  \/ \E k \in Keys : EventsRejected(k)
  \/ \E k \in Keys : RefreshRenews(k)
  \/ \E k \in Keys : PolicyRetry(k)
  \/ \E k \in Keys : RetryCancelled(k)

\* every request is answered and every retry timer fires
SpecChain ==
  /\ InitChain /\ [][NextChain]_vars
  /\ WF_vars(Mount)
  /\ \A k \in Keys :
       /\ WF_vars(EventsRejected(k))
       /\ WF_vars(RefreshRenews(k))
       /\ WF_vars(PolicyRetry(k))
       /\ WF_vars(RetryCancelled(k))

\* ------------------------------------------------- the auth hook alone

\* no call of refreshAccessToken is under way
NoCall ==
  [pc |-> "none", by |-> "none", crt |-> Null, sent |-> Null,
   returned |-> Null]

\* a mutant: refreshAccessToken without its guard
refreshAccessTokenUnguarded(crt, by) ==
  [pc |-> "awaiting", by |-> by, crt |-> crt, sent |-> crt, returned |-> Null]

\* refreshAccessToken up to its await: crt is the refreshToken state of the
\* render whose closure is called.  Without one it returns null at once,
\* otherwise the request carries it.
refreshAccessToken(crt, by) ==
  IF crt = Null
  THEN [pc |-> "returned", by |-> by, crt |-> crt, sent |-> Null,
        returned |-> Null]
  ELSE [pc |-> "awaiting", by |-> by, crt |-> crt, sent |-> crt,
        returned |-> Null]

\* the stores the hook's writes leave: all three entries (saveTokensToStorage),
\* none (logout), or access token and expiry without a refresh token (a
\* refresh that completes after a logout)
WrittenStores ==
  {s \in AnyStores : /\ (s.access = Null) = (s.expiry = NoTime)
                     /\ s.refresh # Null => s.access # Null}

\* a page load over such a store, at an early or a late instant
InitAuth ==
  /\ now \in Clock
  /\ ls \in WrittenStores
  /\ mounted = FALSE
  /\ token = Null
  /\ refreshToken = Null
  /\ dateFilter = NoFilter
  /\ queries = [k \in Keys |-> IdleQuery]
  /\ upstreamExpiry = NoTime
  /\ refreshFailed = FALSE
  /\ userSteps = 0
  /\ triggers = 0
  /\ req = NoCall

\* the mount effect: it sets the state from the store and, when the stored
\* expiry is within 5 minutes, calls the refreshAccessToken of the first
\* render, in which the refreshToken state still has its initial value
MountEffect ==
  /\ ~mounted
  /\ mounted' = TRUE
  /\ token' = ls.access
  /\ refreshToken' = ls.refresh
  /\ req' = IF ls.expiry # NoTime /\ now >= ls.expiry - FiveMinutes
            THEN refreshAccessToken(refreshToken, "mount")
            ELSE req
  /\ UNCHANGED <<now, ls, dateFilter, queries, upstreamExpiry, refreshFailed,
                 userSteps, triggers>>

\* a caller (the query function) calls the refreshAccessToken of the
\* current render
CallRefresh ==
  /\ mounted /\ req.pc = "none"
  /\ req' = refreshAccessToken(refreshToken, "caller")
  /\ UNCHANGED <<now, ls, mounted, token, refreshToken, dateFilter, queries,
                 upstreamExpiry, refreshFailed, userSteps, triggers>>

\* the refresh endpoint answers 200: the new token and expiry are stored,
\* setToken(newToken), return newToken
RefreshReturnsToken(newToken, lifetime) ==
  /\ req.pc = "awaiting"
  /\ ls' = refreshStore(ls, newToken, RouteExpiresIn(now, lifetime), now)
  /\ token' = newToken
  /\ req' = [req EXCEPT !.pc = "returned", !.returned = newToken]
  /\ UNCHANGED <<now, mounted, refreshToken, dateFilter, queries,
                 upstreamExpiry, refreshFailed, userSteps, triggers>>

\* the refresh request fails: logout(), return null
RefreshReturnsNull ==
  /\ req.pc = "awaiting"
  /\ ls' = logoutStore(ls)
  /\ token' = Null
  /\ refreshToken' = Null
  /\ req' = [req EXCEPT !.pc = "returned"]
  /\ UNCHANGED <<now, mounted, dateFilter, queries, upstreamExpiry,
                 refreshFailed, userSteps, triggers>>

\* the caller has the returned value
CallDone ==
  /\ req.pc = "returned"
  /\ req' = NoCall
  /\ UNCHANGED <<now, ls, mounted, token, refreshToken, dateFilter, queries,
                 upstreamExpiry, refreshFailed, userSteps, triggers>>

\* logout() from the button, also while a refresh is awaited
SignOut ==
  /\ mounted /\ token # Null
  /\ ls' = logoutStore(ls)
  /\ token' = Null
  /\ refreshToken' = Null
  /\ UNCHANGED <<now, mounted, dateFilter, queries, upstreamExpiry,
                 refreshFailed, userSteps, triggers, req>>

\* the page is loaded anew: the state of the hook is gone, the store stays
Reload ==
  /\ mounted
  /\ mounted' = FALSE
  /\ token' = Null
  /\ refreshToken' = Null
  /\ req' = NoCall
  /\ UNCHANGED <<now, ls, dateFilter, queries, upstreamExpiry, refreshFailed,
                 userSteps, triggers>>

NextAuth ==
  \/ MountEffect
  \/ Reload
  \/ CallRefresh
  \/ \E a \in Tokens, l \in Lifetimes : RefreshReturnsToken(a, l)
  \/ RefreshReturnsNull
  \/ CallDone
  \/ SignOut

SpecAuth == InitAuth /\ [][NextAuth]_vars

\* ------------------------------------------------------- the API routes

\* process.env: the variables validateEnvironmentVariables requires
RequiredVars ==
  {"GOOGLE_CLIENT_ID", "GOOGLE_CLIENT_SECRET", "GOOGLE_REDIRECT_URI",
   "WEBHOOK_URL"}
\* the ones the OAuth2 client is built from
UpstreamCredentials ==
  {"GOOGLE_CLIENT_ID", "GOOGLE_CLIENT_SECRET", "GOOGLE_REDIRECT_URI"}
\* the environments: the set of variables that are set and not empty
Envs == SUBSET RequiredVars

\* a mutant: nothing is required
validateNothing(env) == {}

\* validateEnvironmentVariables: the missing variables; it throws when
\* there is one
validateEnvironmentVariables(env) == RequiredVars \ env

\* a header: headers.get gives null for an absent header, its text otherwise
NoHeader == [present |-> FALSE, text |-> << >>]
Header(text) == [present |-> TRUE, text |-> text]
\* JavaScript truthiness of a header value: neither null nor ""
Truthy(h) == h.present /\ h.text # << >>

\* the characters of a token
TokenChars(t) == IF t = "a1" THEN <<"a", "1">> ELSE <<"a", "2">>
BearerPrefix == <<"B", "e", "a", "r", "e", "r", " ">>

\* fetchCalendarEvents: headers: { Authorization: `Bearer ${token}` }
AuthorizationHeader(t) == Header(BearerPrefix \o TokenChars(t))

\* tokenFromHeaders: authorization || x-access-token, null when falsy
tokenFromHeaders(authorization, xAccessToken) ==
  IF Truthy(authorization) THEN authorization
  ELSE IF Truthy(xAccessToken) THEN xAccessToken ELSE NoHeader

\* request bodies: req.json() throws on a body that is not JSON; a JSON
\* object has or lacks the fields code and refresh_token (null, "", or set)
NoBody == [parsed |-> FALSE, code |-> Null, refresh_token |-> Null]
Bodies ==
  {NoBody} \cup
  [parsed : {TRUE}, code : {Null, "", "c1"}, refresh_token : {Null, "", "r1"}]
\* !code, !refresh_token
Falsy(v) == v \in {Null, ""}

\* the authorization code in a header of the watch route
CodeChars == <<"c", "1">>

ErrMissingEnv == "Missing required environment variables"
ErrNotJson == "Unexpected end of JSON input"
ErrNoRefreshToken == "Refresh token is required"
ErrNoCode == "Authorization code is required"
ErrNoAccessToken ==
  "Access token not provided in headers as Authorization or x-access-token"
ErrNoAuthCode == "Authorization code not provided in headers as x-access-token"
ErrUpstream == "upstream error"
ErrExchange == "Failed to exchange authorization code for tokens"
ErrNoWebhook == "WEBHOOK_URL environment variable is not configured"

\* a request as a route receives it; clientToken is the token the client
\* holds when the request is the one fetchCalendarEvents sends
RouteRequest(route, env, authorization, xAccessToken, body, clientToken) ==
  [pc |-> "received", route |-> route, env |-> env,
   authorization |-> authorization, xAccessToken |-> xAccessToken,
   body |-> body, clientToken |-> clientToken,
   calls |-> << >>, status |-> 0, error |-> ""]

HeaderValues ==
  {NoHeader, Header(<< >>)} \cup {AuthorizationHeader(t) : t \in Tokens}

\* the requests the routes are tried on
RouteRequests ==
  {RouteRequest("events", env, AuthorizationHeader(t), NoHeader, NoBody, t) :
     env \in Envs, t \in Tokens}
  \cup
  {RouteRequest("events", env, a, x, NoBody, Null) :
     env \in Envs, a \in HeaderValues,
     x \in {NoHeader, Header(TokenChars("a1"))}}
  \cup
  {RouteRequest(route, env, NoHeader, NoHeader, b, Null) :
     route \in {"exchange", "refresh"}, env \in Envs, b \in Bodies}
  \cup
  {RouteRequest("watch", env, NoHeader, x, NoBody, Null) :
     env \in Envs, x \in {NoHeader, Header(<< >>), Header(CodeChars)}}

\* createErrorResponse(error, status = 400), createSuccessResponse
Respond(r, status, error) ==
  [r EXCEPT !.pc = "done", !.status = status, !.error = error]

\* a call to the upstream (Google) is sent and awaited
CallUpstream(r, op, arg) ==
  [r EXCEPT !.pc = "awaiting", !.calls = Append(@, [op |-> op, arg |-> arg])]

InitRoutes ==
  /\ now = 0
  /\ ls = EmptyStore
  /\ mounted = FALSE
  /\ token = Null
  /\ refreshToken = Null
  /\ dateFilter = NoFilter
  /\ queries = [k \in Keys |-> IdleQuery]
  /\ upstreamExpiry = NoTime
  /\ refreshFailed = FALSE
  /\ userSteps = 0
  /\ triggers = 0
  /\ req \in RouteRequests

Handle(r) ==
  /\ req' = r
  /\ UNCHANGED <<now, ls, mounted, token, refreshToken, dateFilter, queries,
                 upstreamExpiry, refreshFailed, userSteps, triggers>>

\* POST /api/auth/refresh, up to its upstream call
POSTRefresh ==
  /\ req.pc = "received" /\ req.route = "refresh"
  /\ Handle(IF validateEnvironmentVariables(req.env) # {}
            THEN Respond(req, 500, ErrMissingEnv)
            ELSE IF ~req.body.parsed THEN Respond(req, 500, ErrNotJson)
            ELSE IF Falsy(req.body.refresh_token)
            THEN Respond(req, 400, ErrNoRefreshToken)
            ELSE CallUpstream(req, "refreshAccessToken",
                              req.body.refresh_token))

\* POST /api/auth/login, up to its upstream call
POSTExchange ==
  /\ req.pc = "received" /\ req.route = "exchange"
  /\ Handle(IF validateEnvironmentVariables(req.env) # {}
            THEN Respond(req, 500, ErrMissingEnv)
            ELSE IF ~req.body.parsed THEN Respond(req, 500, ErrNotJson)
            ELSE IF Falsy(req.body.code)
            THEN Respond(req, 400, ErrNoCode)
            ELSE CallUpstream(req, "getToken", req.body.code))

\* GET /api/events, up to its upstream call: the credential of the OAuth2
\* client is what tokenFromHeaders returns
GETEvents ==
  /\ req.pc = "received" /\ req.route = "events"
  /\ LET accessToken == tokenFromHeaders(req.authorization, req.xAccessToken)
     IN Handle(IF ~Truthy(accessToken)
               THEN Respond(req, 400, ErrNoAccessToken)
               ELSE CallUpstream(req, "events.list", accessToken.text))

\* GET of the calendar-watch route, up to its first upstream call, the
\* exchange in getUserIdFromToken
GETWatch ==
  /\ req.pc = "received" /\ req.route = "watch"
  /\ LET authCode == tokenFromHeaders(req.authorization, req.xAccessToken)
     IN Handle(IF ~Truthy(authCode)
               THEN Respond(req, 400, ErrNoAuthCode)
               ELSE CallUpstream(req, "getToken", authCode.text))

\* the upstream answers the awaited call with a result
UpstreamOk ==
  /\ req.pc = "awaiting"
  /\ Handle(IF req.route # "watch" THEN Respond(req, 200, "")
            ELSE CASE Len(req.calls) = 1 ->
                        CallUpstream(req, "getTokenInfo", req.calls[1].arg)
                   [] Len(req.calls) = 2 ->
                        CallUpstream(req, "getToken", req.calls[1].arg)
                   [] Len(req.calls) = 3 ->
                        IF "WEBHOOK_URL" \notin req.env
                        THEN Respond(req, 500, ErrNoWebhook)
                        ELSE CallUpstream(req, "events.watch",
                                          req.calls[1].arg)
                   [] OTHER -> Respond(req, 200, ""))

\* the upstream answers the awaited call with an error: the catch of the
\* handler answers 500
UpstreamError ==
  /\ req.pc = "awaiting"
  /\ Handle(Respond(req, 500,
                    IF req.calls[Len(req.calls)].op = "getToken"
                    THEN ErrExchange ELSE ErrUpstream))

NextRoutes ==
  \/ POSTRefresh
  \/ POSTExchange
  \/ GETEvents
  \/ GETWatch
  \/ UpstreamOk
  \/ UpstreamError

SpecRoutes == InitRoutes /\ [][NextRoutes]_vars

\* ------------------------------------------------- explicit re-triggers

\* refetchOnWindowFocus: true.  The window regains the focus: the observer
\* refetches the query it observes when its result is stale, and a fetch in
\* flight is left running.
WindowFocus ==
  /\ mounted /\ token # Null
  /\ Commit(IF IsStale(queries[CurKey], now)
               /\ queries[CurKey].pc \notin InFlightPcs
            THEN [queries EXCEPT ![CurKey] =
                    StartTrigger(@, CurKey, ls, refreshToken, now)]
            ELSE queries,
            "WindowFocus")
  /\ UNCHANGED <<now, ls, mounted, token, refreshToken, dateFilter,
                 upstreamExpiry, refreshFailed>>

\* a session with valid tokens in which the user changes the filter and
\* leaves and refocuses the window, early and late
NextRetrigger ==
  \/ Mount
  \/ \E f \in Filters : SetFilter(f)
  \/ WindowFocus
  \/ \E k \in Keys, p \in UpstreamAnswers : EventsOk(k, p)
  \/ \E t \in Clock : Tick(t)

SpecRetrigger == InitEvents /\ [][NextRetrigger]_vars

\* --------------------------------------------------- the polling cycle

\* a mutant: the interval timer polls only after a success
IntervalElapsedAfterSuccess ==
  /\ mounted /\ token # Null
  /\ queries[CurKey].pc = "success"
  /\ queries' = Settle(queries, [queries EXCEPT ![CurKey] =
                  StartTrigger(@, CurKey, ls, refreshToken, now)])
  /\ triggers' = 0
  /\ UNCHANGED <<now, ls, mounted, token, refreshToken, dateFilter,
                 upstreamExpiry, refreshFailed, userSteps, req>>

\* refetchInterval: 30000.  The observer of the current key re-arms its
\* interval timer at every update of the query, and RefetchInterval ms after
\* a result (success or error alike) the timer fetches again.  The step
\* stands for the timer firing; each polling cycle has the trigger budget
\* of the model anew.
IntervalElapsed ==
  /\ mounted /\ token # Null
  /\ queries[CurKey].pc \in {"success", "error"}
  /\ queries' = Settle(queries, [queries EXCEPT ![CurKey] =
                  StartTrigger(@, CurKey, ls, refreshToken, now)])
  /\ triggers' = 0
  /\ UNCHANGED <<now, ls, mounted, token, refreshToken, dateFilter,
                 upstreamExpiry, refreshFailed, userSteps, req>>

\* a page that is left open: the timer polls and the requests in flight are
\* answered
NextPoll ==
  \/ Mount
  \/ IntervalElapsed
  \/ \E k \in Keys : PolicyRetry(k)
  \/ \E k \in Keys : RetryCancelled(k)
  \/ \E k \in Keys, p \in Payloads : EventsOk(k, p)
  \/ \E k \in Keys, b \in ErrorBodies : EventsFail(k, b)
  \/ \E k \in Keys, a \in Tokens, l \in Lifetimes : RefreshOk(k, a, l)
  \/ \E k \in Keys : RefreshFail(k)

\* setInterval fires as long as the observer is mounted and enabled
SpecPoll == Init /\ [][NextPoll]_vars /\ WF_vars(IntervalElapsed)


\* ------------------------------------------------------------------ claims

\* the messages fetchCalendarEvents can throw
FetchErrors == {FetchErrorMessage(b) : b \in ErrorBodies}

\* C1: one run of the query function sends at most one refresh request and
\* at most two events requests, whatever the expiry state at its start.
C1_AtMostOneRefreshPerRun ==
  \A k \in Keys : queries[k].nRefresh <= 1 /\ queries[k].nEvents <= 2

\* C2: after a failed recovery (refresh succeeded, retried request failed)
\* the query is Failed and the retry predicate answers false for the error
\* the query function threw.
C2_FailedRecoveryIsFinal ==
  \A k \in Keys :
    queries[k].err = MsgAuthenticationFailed =>
      /\ queries[k].pc = "error"
      /\ ~RetryPredicate(0, queries[k].err)

\* C3: when the retried events request fails, the error the query function
\* throws is the error of that request.
C3_RetryErrorUnmasked ==
  [][\A k \in Keys :
       (queries[k].pc = "retryEvents" /\ queries'[k].pc \in {"retryDelay", "error"})
         => queries'[k].err \in FetchErrors]_vars

\* C4: once a refresh request has failed, no refresh request is sent until
\* a new login has stored new tokens.
C4_NoRefreshAfterFailure ==
  [][refreshFailed => ~SentRefresh(queries, queries')]_vars

\* C5: a step in which a refresh request fails leaves the three stored
\* entries absent and the token and refreshToken state null.
C5_RefreshFailureClearsAll ==
  [][\A k \in Keys :
       (queries[k].pc \in RefreshPcs /\ queries'[k].pc \in {"retryDelay", "error"})
         => (ls' = EmptyStore /\ token' = Null /\ refreshToken' = Null)]_vars

\* a refresh request of a trigger has failed, from a store that held all
\* three entries at the page load
C5_Witness ==
  /\ refreshFailed
  /\ \E k \in Keys : queries[k].refreshFailedInTrigger
  /\ ls = EmptyStore /\ token = Null /\ refreshToken = Null


\* C6: a trigger that started with an expired token and whose refresh
\* failed sends no events request after that failure, and ends with the
\* store cleared and the token null.
C6_NoEventsAfterFailedRefresh ==
  \A k \in Keys :
    /\ ~queries[k].evAfterFail
    /\ (queries[k].refreshFailedInTrigger /\ queries[k].pc = "error")
         => (ls = EmptyStore /\ token = Null)

\* C7: a run whose events request was retried after a refresh and then
\* succeeded has sent exactly 2 events requests and exactly 1 refresh
\* request.
C7_TwoEventsOneRefresh ==
  \A k \in Keys :
    (queries[k].pc = "success" /\ queries[k].caught # NoMsg)
      => (queries[k].nEvents = 2 /\ queries[k].nRefresh = 1)

\* C8: the expiry stored by a code exchange or a refresh is the instant at
\* which the upstream access token expires.
C8_StoredExpiryIsUpstreamExpiry ==
  (ls.expiry # NoTime /\ upstreamExpiry # NoTime) => ls.expiry = upstreamExpiry

\* C9: isTokenExpired() is true iff now >= t - 5 minutes for the stored
\* expiry t, and true when no expiry is stored.
C9_ExpiredIffWithinFiveMinutes ==
  \A k \in Keys :
    queries[k].pc # "idle" =>
      (queries[k].expiredAtStart <=>
         (ls.expiry = NoTime \/ now >= ls.expiry - FiveMinutes))

\* a run started at the threshold instant itself, and found the token expired
C9_Witness ==
  \E k \in Keys :
    /\ queries[k].pc = "preRefresh"
    /\ queries[k].expiredAtStart
    /\ ls.expiry # NoTime
    /\ now = ls.expiry - FiveMinutes

\* C10: a run that starts while the stored expiry is more than 5 minutes
\* away sends the stored access token; a run that starts expired sends no
\* events request before a refresh, and the request after the refresh
\* carries the token that refresh returned and stored.
C10_NoLocallyExpiredTokenSent ==
  [][\A k \in Keys :
       /\ (queries[k].pc \notin InFlightPcs /\ queries'[k].pc = "events")
            => (~isTokenExpired(ls'.expiry, now') /\ queries'[k].sentTok = ls'.access)
       /\ (queries[k].pc = "retryDelay" /\ queries'[k].pc = "events")
            => (~isTokenExpired(ls'.expiry, now') /\ queries'[k].sentTok = ls'.access)
       /\ (queries[k].pc \in {"idle", "success", "error", "retryDelay"}
             /\ queries'[k].pc \in InFlightPcs
             /\ isTokenExpired(ls'.expiry, now'))
            => queries'[k].pc \in {"preRefresh", "retryDelay"}
       /\ (queries[k].pc = "preRefresh" /\ queries'[k].pc = "preEvents")
            => queries'[k].sentTok = ls'.access]_vars

\* a run that started expired has refreshed and sent the new token
C10_Witness ==
  \E k \in Keys :
    /\ queries[k].pc = "preEvents"
    /\ queries[k].expiredAtStart
    /\ queries[k].sentTok = ls.access
    /\ queries[k].sentTok # k[1]

\* C11: the three stored entries are all absent or all present.
C11_AllOrNone ==
  \/ (ls.access = Null /\ ls.refresh = Null /\ ls.expiry = NoTime)
  \/ (ls.access # Null /\ ls.refresh # Null /\ ls.expiry # NoTime)

\* C12: every step that changes the stored access token or the stored
\* expiry writes both of them: either both are removed, or the access token
\* is stored together with the expiry computed in that same step.
C12_AccessAndExpiryFromSameWrite ==
  [][(ls'.access # ls.access \/ ls'.expiry # ls.expiry) =>
       \/ (ls'.access = Null /\ ls'.expiry = NoTime)
       \/ /\ ls'.access \in Tokens
          /\ \E l \in Lifetimes :
               ls'.expiry = ExpiryTime(now', RouteExpiresIn(now', l))]_vars

\* two refresh requests were in flight at once and one of them has
\* completed and stored its token
C12_Witness ==
  \E k1 \in Keys, k2 \in Keys :
    /\ k1 # k2
    /\ queries[k1].pc = "preEvents"
    /\ queries[k2].pc = "preRefresh"
    /\ ls.access = queries[k1].sentTok
    /\ ls.expiry # NoTime

\* C13: after logout() the store holds none of the three entries and the
\* token is null until the next code exchange.  On a mounted page the
\* refreshToken state is null only when the page loaded without tokens or
\* logout() has run since, and it stays null until the page is loaded anew
\* after a code exchange.
C13_LogoutStaysDestroyed ==
  (mounted /\ refreshToken = Null) => (ls = EmptyStore /\ token = Null)

\* C14: logout() leaves the three entries absent and the token and
\* refreshToken state null, and a second call leaves what the first left.
C14_LogoutIdempotent ==
  [][/\ (ls' = EmptyStore /\ token' = Null /\ refreshToken' = Null)
     /\ userSteps >= 1 =>
          (ls' = ls /\ token' = token /\ refreshToken' = refreshToken)]_vars

\* logout() has been called twice
C14_Witness ==
  /\ userSteps = 2
  /\ ls = EmptyStore /\ token = Null /\ refreshToken = Null

C16_BoundsAreLocalDayBounds ==
  req.pc = "listed" =>
    /\ req.timeMin = ToISOString(LocalTime(req.startDate, 0, req.offset))
    /\ req.timeMax = ToISOString(LocalTime(req.endDate, DayMs - 1, req.offset))

\* C17: after a successful response for the observed query the page shows
\* exactly the upstream's list, in the upstream's order, and no error (the
\* empty state when the list is empty or the answer has no items).
C17_EventsShownAsReturned ==
  LET q == queries[CurKey]
  IN (token # Null /\ q.pc = "success") =>
       EventsList(PageEvents(q), FALSE, q.err) =
         IF q.upstream.hasItems /\ q.upstream.items # << >>
         THEN [kind |-> "events", events |-> q.upstream.items, message |-> NoMsg]
         ELSE [kind |-> "empty", events |-> << >>, message |-> NoMsg]

\* three events, not in id order and one of them twice, are shown
C17_Witness ==
  /\ token # Null
  /\ queries[CurKey].pc = "success"
  /\ queries[CurKey].upstream.items = <<"e2", "e1", "e2">>
  /\ PageEvents(queries[CurKey]) = <<"e2", "e1", "e2">>

\* C18: the events held for a key, and so the events shown while that key
\* is the current one, answer a request that was sent for that key's date
\* filter; the answer to a superseded request is never stored under the
\* key that superseded it.
C18_OnlyOwnResultShown ==
  \A k \in Keys :
    queries[k].updatedAt # NoTime =>
      /\ queries[k].dataFilter = k[2]
      /\ (k = CurKey => PageEvents(queries[k]) = queries[k].data)

\* the answer to a superseded request arrives after the answer to the
\* request that superseded it
C18_Witness ==
  \E k \in Keys :
    /\ token # Null /\ k # CurKey
    /\ queries[k].pc = "success" /\ queries[k].cancelled
    /\ queries[k].dataFilter # dateFilter
    /\ queries[CurKey].pc = "success"
    /\ queries[CurKey].dataFilter = dateFilter

\* a fetch of query k starts in this step: a new trigger, or a re-run by
\* the retryer
FetchStarts(k) ==
  \/ queries[k].pc \notin InFlightPcs /\ queries'[k].pc \in InFlightPcs
  \/ /\ queries[k].pc = "retryDelay"
     /\ \/ queries'[k].pc \in RefreshPcs \cup EventsPcs
        \/ queries'[k].failureCount > queries[k].failureCount

\* C19: while the token is null no fetch is started and no events request
\* is sent, and in the step in which the token turns non-null the query of
\* the new key is fetching.
C19_FetchOnlyWithToken ==
  [][/\ token' = Null =>
          \A k \in Keys :
            /\ ~FetchStarts(k)
            /\ ~(queries'[k].pc \in EventsPcs /\ queries'[k].pc # queries[k].pc)
     /\ (token = Null /\ token' # Null) =>
          queries'[<<token', dateFilter'>>].pc \in InFlightPcs]_vars

\* C20: while a token is held, a completed fetch of the observed query is
\* eventually followed by another fetch, unless the session ends first.
C20_PollingContinues ==
  (mounted /\ token # Null /\ queries[CurKey].pc \in {"success", "error"})
    ~> (token = Null \/ queries[CurKey].pc \in InFlightPcs)

\* the observed query has completed a fetch that the interval timer started
C20_Witness ==
  /\ mounted /\ token # Null
  /\ triggers = 0
  /\ queries[CurKey].pc = "error"
  /\ queries[CurKey].updatedAt # NoTime

\* a filter change or a refocus after a successful fetch (under
\* SpecRetrigger the only other step of the user is the passing of time)
ReTrigger ==
  /\ mounted /\ token # Null /\ token' = token
  /\ userSteps' = userSteps + 1 /\ now' = now
  /\ queries[CurKey].pc = "success"

\* C21 as stated: every explicit re-trigger after a successful fetch leaves
\* the query of the selected key fetching.
C21_ReTriggerFetchesAtOnce ==
  [][ReTrigger => queries'[<<token', dateFilter'>>].pc \in InFlightPcs]_vars

\* C21 as amended: an explicit re-trigger after a successful fetch starts a
\* fetch of the selected key exactly when that key has no result or a result
\* that is at least staleTime old; a key already being fetched stays so.
C21_ReTriggerFetchesWhenStale ==
  [][ReTrigger =>
       LET kn == <<token', dateFilter'>>
       IN queries'[kn].pc \in InFlightPcs
            <=> \/ queries[kn].pc \in InFlightPcs
                \/ queries[kn].updatedAt = NoTime
                \/ now - queries[kn].updatedAt >= StaleTime]_vars

\* a result fetched at 0 is being refetched after a re-trigger at MaxNow
C21_Witness ==
  /\ mounted /\ token # Null
  /\ userSteps = 2 /\ now = MaxNow
  /\ queries[CurKey].pc \in InFlightPcs
  /\ queries[CurKey].updatedAt = 0

\* C22: with an upstream credential missing from the configuration, the
\* token-exchange and token-refresh routes answer with an error and call the
\* upstream never, whatever the body holds.
C22_ConfigErrorBeforeBody ==
  (/\ req.route \in {"exchange", "refresh"}
   /\ req.pc # "received"
   /\ ~(UpstreamCredentials \subseteq req.env))
    => /\ req.pc = "done"
       /\ req.status = 500 /\ req.error = ErrMissingEnv
       /\ req.calls = << >>

\* a request without a code has been answered with the configuration error
C22_Witness ==
  /\ req.route = "exchange" /\ req.pc = "done"
  /\ ~(UpstreamCredentials \subseteq req.env)
  /\ req.body.parsed /\ req.body.code = Null
  /\ req.error = ErrMissingEnv

\* C28: the credential the events route hands to the upstream call is the
\* access token the client holds, without the scheme prefix or other text.
C28_BearerRoundTrip ==
  (/\ req.route = "events"
   /\ req.clientToken # Null
   /\ req.calls # << >>)
    => req.calls[1].arg = TokenChars(req.clientToken)

\* the request of a route lacks the credential the route requires
LacksCredential(r) ==
  CASE r.route \in {"events", "watch"} ->
         ~Truthy(r.authorization) /\ ~Truthy(r.xAccessToken)
    [] r.route = "exchange" -> ~r.body.parsed \/ Falsy(r.body.code)
    [] r.route = "refresh" -> ~r.body.parsed \/ Falsy(r.body.refresh_token)

\* C29: with the configuration complete, a request that lacks its required
\* credential is answered 400 and no upstream call is made.
C29_MissingCredentialIs400 ==
  (/\ req.route \in {"events", "exchange", "refresh"}
   /\ req.pc # "received"
   /\ RequiredVars \subseteq req.env
   /\ LacksCredential(req))
    => /\ req.pc = "done" /\ req.status = 400
       /\ req.calls = << >>

\* C30: one request to the calendar-watch route submits the authorization
\* code for exchange at most once.
C30_CodeExchangedOnce ==
  req.route = "watch" =>
    Cardinality({i \in DOMAIN req.calls : req.calls[i].op = "getToken"}) <= 1

\* C23: at the mount of the auth hook over a store with a refresh token
\* and an expiry within 5 minutes, a refresh request carrying the stored
\* refresh token is issued.
C23_MountRefreshes ==
  [][(/\ ~mounted /\ mounted'
      /\ ls.refresh # Null /\ ls.expiry # NoTime
      /\ now >= ls.expiry - FiveMinutes)
     => (req'.pc = "awaiting" /\ req'.sent = ls.refresh)]_vars

\* C24: a successful refresh leaves the persisted and the in-memory refresh
\* token as they are, and when refreshAccessToken returns, the in-memory
\* token, the persisted access token and the returned value are the same new
\* access token.
C24_RefreshFrame ==
  [][(req.pc = "awaiting" /\ req'.pc = "returned" /\ req'.returned # Null)
     => /\ ls'.refresh = ls.refresh
        /\ refreshToken' = refreshToken
        /\ req'.returned \in Tokens
        /\ token' = req'.returned
        /\ ls'.access = req'.returned]_vars

\* a refresh has returned a token other than the one held before
C24_Witness ==
  /\ req.pc = "returned" /\ req.returned = "a2"
  /\ ls.access = "a2" /\ token = "a2"
  /\ ls.refresh = "r1" /\ refreshToken = "r1"

\* C25: refreshAccessToken called without a refresh token in memory returns
\* null, sends no request, and leaves the store and the in-memory token as
\* they are.
C25_NoRefreshTokenNoRequest ==
  [][(mounted /\ req.pc = "none" /\ req'.pc # "none" /\ refreshToken = Null)
     => /\ req'.pc = "returned" /\ req'.returned = Null
        /\ req'.sent = Null
        /\ ls' = ls
        /\ token' = token]_vars

\* a call without a refresh token has returned while the user is signed in
C25_Witness ==
  /\ mounted /\ req.pc = "returned" /\ req.by = "caller"
  /\ req.crt = Null /\ req.returned = Null
  /\ token # Null /\ ls.access # Null

\* C27: for every selected day and every UTC offset of the client, the
\* startDate and endDate parameters of the request are both that day.
C27_ParametersAreSelectedDay ==
  req.pc = "sent" => (req.startDate = req.day /\ req.endDate = req.day)

\* no request is in flight and no retry is waiting
Quiescent ==
  mounted /\ \A k \in Keys : queries[k].pc \notin InFlightPcs

\* C26: a page load left to itself reaches a quiescent state, even when
\* every events request is rejected and every refresh gives a new token.
C26_ReachesQuiescence == <>Quiescent

====
